---------------------------- MODULE Spec2Model ----------------------------
(***************************************************************************)
(* A model of the client-side confidentiality layer of StellarAiV2         *)
(* (src/services/encryptionService.ts): the lazily derived, cached key,    *)
(* and the asynchronous encrypt and decrypt calls with their await points. *)
(*                                                                         *)
(* Strings are sequences of UTF-16 code units, byte arrays are sequences   *)
(* of numbers in 0..255.  The platform functions the code calls            *)
(* (TextEncoder, TextDecoder, btoa, atob) are computed as their standards  *)
(* define them.  AES-GCM and PBKDF2 are modelled by functions that have    *)
(* the structure of the real ones (a keystream added to the plaintext; a   *)
(* tag that is a polynomial hash of the ciphertext masked by a value that  *)
(* is injective in the 12-byte nonce) over the ring of bytes.              *)
(***************************************************************************)
EXTENDS Integers, Sequences, FiniteSets, Bags, TLC

\* null, for each type that may be null
NoKey == [algorithm |-> "none", material |-> <<>>]

NoKeyMaterial == [algorithm |-> "none", data |-> <<>>]

NoStored == [blob |-> <<>>, plaintext |-> <<>>]

NoResult == [ok |-> FALSE, value |-> <<>>, error |-> "pending"]

\* src/services/encryptionService.ts:7, the characters of SECRET_KEY
SECRET_KEY ==
  <<97, 45, 118, 101, 114, 121, 45, 115, 101, 99, 114, 101, 116, 45, 107,
    101, 121, 45, 102, 111, 114, 45, 115, 116, 101, 108, 108, 97, 114, 45,
    97, 105, 45, 100, 101, 109, 111>>

\* src/services/encryptionService.ts:29, the characters of the salt
SALT ==
  <<115, 111, 109, 101, 45, 115, 97, 108, 116, 45, 118, 97, 108, 117, 101>>

ITERATIONS == 100000

KeyLength == 256

NonceLen == 12

TagLen == 16

-----------------------------------------------------------------------------
(* Helpers on sequences of numbers *)

\* the element of s at position i, counted cyclically; 0 when s is empty
Cyclic(s, i) == IF s = <<>> THEN 0 ELSE s[((i - 1) % Len(s)) + 1]

\* Uint8Array.prototype.slice(from) and slice(0, to), 0-based, end exclusive
Slice(s, from, to) ==
  LET hi == IF to > Len(s) THEN Len(s) ELSE to
  IN  IF from >= hi THEN <<>> ELSE SubSeq(s, from + 1, hi)

-----------------------------------------------------------------------------
(* TextEncoder.encode: the string is converted to scalar values (a lone     *)
(* surrogate becomes U+FFFD) and each scalar value to its UTF-8 bytes.      *)

IsHighSurrogate(u) == u >= 55296 /\ u <= 56319

IsLowSurrogate(u) == u >= 56320 /\ u <= 57343

RECURSIVE ToScalarValues(_)
ToScalarValues(s) ==
  IF s = <<>> THEN <<>>
  ELSE IF IsHighSurrogate(s[1]) /\ Len(s) >= 2 /\ IsLowSurrogate(s[2])
       THEN <<65536 + (s[1] - 55296) * 1024 + (s[2] - 56320)>>
              \o ToScalarValues(SubSeq(s, 3, Len(s)))
  ELSE IF IsHighSurrogate(s[1]) \/ IsLowSurrogate(s[1])
       THEN <<65533>> \o ToScalarValues(Tail(s))
  ELSE <<s[1]>> \o ToScalarValues(Tail(s))

Utf8EncodeScalar(cp) ==
  IF cp < 128 THEN <<cp>>
  ELSE IF cp < 2048 THEN <<192 + (cp \div 64), 128 + (cp % 64)>>
  ELSE IF cp < 65536
       THEN <<224 + (cp \div 4096), 128 + ((cp \div 64) % 64), 128 + (cp % 64)>>
  ELSE <<240 + (cp \div 262144), 128 + ((cp \div 4096) % 64),
         128 + ((cp \div 64) % 64), 128 + (cp % 64)>>

RECURSIVE Utf8EncodeScalars(_)
Utf8EncodeScalars(cps) ==
  IF cps = <<>> THEN <<>>
  ELSE Utf8EncodeScalar(Head(cps)) \o Utf8EncodeScalars(Tail(cps))

TextEncode(s) == Utf8EncodeScalars(ToScalarValues(s))

-----------------------------------------------------------------------------
(* TextDecoder.decode of new TextDecoder(): UTF-8, fatal = false (a         *)
(* malformed sequence decodes to U+FFFD), ignoreBOM = false (a leading      *)
(* byte order mark is removed).  Utf8Decode is the decoder of the Encoding  *)
(* standard: need = bytes needed, seen = bytes seen, lo..hi = the range of  *)
(* the next continuation byte.  It returns the scalar values and whether    *)
(* the decoder met an error.                                                *)

RECURSIVE Utf8Decode(_, _, _, _, _, _, _)
Utf8Decode(b, i, need, seen, cp, lo, hi) ==
  IF i > Len(b)
  THEN IF need # 0 THEN [out |-> <<65533>>, err |-> TRUE]
                   ELSE [out |-> <<>>, err |-> FALSE]
  ELSE LET x == b[i] IN
    IF need = 0
    THEN IF x <= 127
         THEN LET r == Utf8Decode(b, i + 1, 0, 0, 0, 128, 191)
              IN  [out |-> <<x>> \o r.out, err |-> r.err]
         ELSE IF x >= 194 /\ x <= 223
         THEN Utf8Decode(b, i + 1, 1, 0, x % 32, 128, 191)
         ELSE IF x >= 224 /\ x <= 239
         THEN Utf8Decode(b, i + 1, 2, 0, x % 16,
                         IF x = 224 THEN 160 ELSE 128,
                         IF x = 237 THEN 159 ELSE 191)
         ELSE IF x >= 240 /\ x <= 244
         THEN Utf8Decode(b, i + 1, 3, 0, x % 8,
                         IF x = 240 THEN 144 ELSE 128,
                         IF x = 244 THEN 143 ELSE 191)
         ELSE LET r == Utf8Decode(b, i + 1, 0, 0, 0, 128, 191)
              IN  [out |-> <<65533>> \o r.out, err |-> TRUE]
    ELSE IF x < lo \/ x > hi
         \* the byte is put back and decoded again as a first byte
         THEN LET r == Utf8Decode(b, i, 0, 0, 0, 128, 191)
              IN  [out |-> <<65533>> \o r.out, err |-> TRUE]
         ELSE IF seen + 1 = need
         THEN LET r == Utf8Decode(b, i + 1, 0, 0, 0, 128, 191)
              IN  [out |-> <<cp * 64 + (x % 64)>> \o r.out, err |-> r.err]
         ELSE Utf8Decode(b, i + 1, need, seen + 1, cp * 64 + (x % 64), 128, 191)

RECURSIVE ToCodeUnits(_)
ToCodeUnits(cps) ==
  IF cps = <<>> THEN <<>>
  ELSE LET cp == Head(cps) IN
       (IF cp >= 65536
        THEN <<55296 + ((cp - 65536) \div 1024), 56320 + ((cp - 65536) % 1024)>>
        ELSE <<cp>>) \o ToCodeUnits(Tail(cps))

StripBOM(cps) == IF cps # <<>> /\ cps[1] = 65279 THEN Tail(cps) ELSE cps

TextDecode(b) == ToCodeUnits(StripBOM(Utf8Decode(b, 1, 0, 0, 0, 128, 191).out))

IsValidUtf8(b) == ~Utf8Decode(b, 1, 0, 0, 0, 128, 191).err

\* a string without lone surrogates: the strings that have a UTF-8 form
IsWellFormed(s) == ToCodeUnits(ToScalarValues(s)) = s

-----------------------------------------------------------------------------
(* btoa and atob (forgiving-base64 of the HTML standard)                    *)

B64Char(i) ==
  IF i < 26 THEN 65 + i
  ELSE IF i < 52 THEN 97 + (i - 26)
  ELSE IF i < 62 THEN 48 + (i - 52)
  ELSE IF i = 62 THEN 43 ELSE 47

B64Index(c) ==
  IF c >= 65 /\ c <= 90 THEN c - 65
  ELSE IF c >= 97 /\ c <= 122 THEN c - 97 + 26
  ELSE IF c >= 48 /\ c <= 57 THEN c - 48 + 52
  ELSE IF c = 43 THEN 62
  ELSE IF c = 47 THEN 63 ELSE -1

PadChar == 61

IsAsciiWhitespace(c) == c \in {9, 10, 12, 13, 32}

\* String.fromCharCode.apply(null, Array.from(bytes)): one code unit per byte
FromCharCodes(bytes) == [i \in 1..Len(bytes) |-> bytes[i] % 65536]

\* btoa: each group of three bytes gives four characters; a last group of
\* one or two bytes is padded with '='
Btoa(s) ==
  LET n == Len(s)
      at(i) == IF i <= n THEN s[i] ELSE 0
  IN  [p \in 1..(4 * ((n + 2) \div 3)) |->
         LET k  == 3 * ((p - 1) \div 4)
             j  == (p - 1) % 4
         IN  IF j = 0 THEN B64Char(at(k + 1) \div 4)
             ELSE IF j = 1
                  THEN B64Char((at(k + 1) % 4) * 16 + (at(k + 2) \div 16))
             ELSE IF j = 2
                  THEN IF k + 2 <= n
                       THEN B64Char((at(k + 2) % 16) * 4 + (at(k + 3) \div 64))
                       ELSE PadChar
             ELSE IF k + 3 <= n THEN B64Char(at(k + 3) % 64) ELSE PadChar]

StripWhitespace(s) == SelectSeq(s, LAMBDA ch : ~IsAsciiWhitespace(ch))

StripPadding(s) ==
  IF Len(s) % 4 = 0 /\ Len(s) > 0 /\ s[Len(s)] = PadChar
  THEN IF s[Len(s) - 1] = PadChar THEN SubSeq(s, 1, Len(s) - 2)
                                  ELSE SubSeq(s, 1, Len(s) - 1)
  ELSE s

\* each group of four characters gives three bytes; a last group of two or
\* three characters gives one or two bytes, its spare bits are dropped
B64DecodeGroups(s) ==
  LET m == Len(s)
      ix(i) == IF i <= m THEN B64Index(s[i]) ELSE 0
  IN  [q \in 1..(3 * (m \div 4) + (IF m % 4 = 0 THEN 0 ELSE (m % 4) - 1)) |->
         LET k == 4 * ((q - 1) \div 3)
             r == (q - 1) % 3
         IN  IF r = 0 THEN ix(k + 1) * 4 + (ix(k + 2) \div 16)
             ELSE IF r = 1 THEN (ix(k + 2) % 16) * 16 + (ix(k + 3) \div 4)
             ELSE (ix(k + 3) % 4) * 64 + ix(k + 4)]

\* atob: [ok |-> FALSE] is the InvalidCharacterError it throws
Atob(s) ==
  LET t == StripPadding(StripWhitespace(s))
  IN  IF Len(t) % 4 = 1 \/ \E i \in 1..Len(t) : B64Index(t[i]) = -1
      THEN [ok |-> FALSE, bytes |-> <<>>]
      ELSE [ok |-> TRUE, bytes |-> B64DecodeGroups(t)]

-----------------------------------------------------------------------------
(* The Web Crypto operations the code calls.  PBKDF2 is a deterministic     *)
(* function of the password, the salt, the iteration count and the length.  *)
(* AES-GCM is counter mode (a keystream, decided by key and nonce, added    *)
(* to the plaintext byte by byte) followed by a tag of TagLen bytes: a      *)
(* polynomial hash of the ciphertext in the hash subkey (GHASH), masked by  *)
(* a value that is injective in the 12-byte nonce (the encrypted initial    *)
(* counter block).  The hash subkey is a unit of the byte ring, as the real *)
(* one is a non-zero field element.                                         *)

Pbkdf2(password, salt, iterations, lengthBits) ==
  [j \in 1..(lengthBits \div 8) |->
     (Cyclic(password, j) * j + 7 * Cyclic(salt, j) + iterations + j * j) % 256]

\* crypto.subtle.importKey('raw', data, {name: 'PBKDF2'}, false, ['deriveKey'])
ImportKey(data) == [algorithm |-> "PBKDF2", data |-> data]

\* crypto.subtle.deriveKey({PBKDF2, salt, iterations, SHA-256}, keyMaterial,
\*                         {AES-GCM, 256}, true, ['encrypt', 'decrypt'])
DeriveKey(salt, iterations, keyMaterial, lengthBits) ==
  Pbkdf2(keyMaterial.data, salt, iterations, lengthBits)

HashSubkey(K) == (2 * K[1] + 1) % 256

KeyStream(K, iv, i) == (Cyclic(K, i) + 3 * Cyclic(iv, i) + i) % 256

RECURSIVE GHash(_, _, _, _)
GHash(h, ct, i, acc) ==
  IF i > Len(ct) THEN acc
  ELSE GHash(h, ct, i + 1, ((acc + ct[i]) * h) % 256)

TagMask(K, iv, j) == (K[j] + (IF j <= Len(iv) THEN iv[j] ELSE Len(iv))) % 256

GcmTag(K, iv, ct) ==
  [j \in 1..TagLen |->
     (TagMask(K, iv, j) + GHash(HashSubkey(K), ct, 1, Len(ct) % 256)) % 256]

\* crypto.subtle.encrypt({name: 'AES-GCM', iv}, key, data): ciphertext, then tag
AesGcmEncrypt(K, iv, pt) ==
  LET ct == [i \in 1..Len(pt) |-> (pt[i] + KeyStream(K, iv, i)) % 256]
  IN  ct \o GcmTag(K, iv, ct)

\* a cipher that does not compare the tag (counter mode alone)
AesGcmDecryptUnchecked(K, iv, data) ==
  IF Len(data) < TagLen THEN [ok |-> FALSE, bytes |-> <<>>]
  ELSE [ok |-> TRUE,
        bytes |-> [i \in 1..(Len(data) - TagLen) |->
                     (data[i] + 256 - KeyStream(K, iv, i)) % 256]]

\* a cipher that takes an input shorter than the tag for an empty message
AesGcmDecryptShortAccepted(K, iv, data) ==
  IF Len(data) < TagLen THEN [ok |-> TRUE, bytes |-> <<>>]
  ELSE LET n  == Len(data) - TagLen
           ct == SubSeq(data, 1, n)
           tg == SubSeq(data, n + 1, Len(data))
       IN  IF tg # GcmTag(K, iv, ct) THEN [ok |-> FALSE, bytes |-> <<>>]
           ELSE [ok |-> TRUE,
                 bytes |-> [i \in 1..n |->
                              (ct[i] + 256 - KeyStream(K, iv, i)) % 256]]

\* crypto.subtle.decrypt({name: 'AES-GCM', iv}, key, data): [ok |-> FALSE] is
\* the OperationError of an input shorter than the tag or of a tag mismatch
AesGcmDecrypt(K, iv, data) ==
  IF Len(data) < TagLen THEN [ok |-> FALSE, bytes |-> <<>>]
  ELSE LET n  == Len(data) - TagLen
           ct == SubSeq(data, 1, n)
           tg == SubSeq(data, n + 1, Len(data))
       IN  IF tg # GcmTag(K, iv, ct) THEN [ok |-> FALSE, bytes |-> <<>>]
           ELSE [ok |-> TRUE,
                 bytes |-> [i \in 1..n |->
                              (ct[i] + 256 - KeyStream(K, iv, i)) % 256]]

-----------------------------------------------------------------------------
(* The synchronous pieces of encrypt and decrypt                            *)

\* a getKey that never takes the cached key
GetKeyNeverCached(ck) == FALSE

\* getKey, line 15: if (cryptoKey) return cryptoKey
GetKeyCached(ck) == ck # NoKey

\* an encrypt that puts the ciphertext before the nonce
CombineCiphertextFirst(iv, ciphertext) == Btoa(FromCharCodes(ciphertext \o iv))

\* encrypt, lines 65-70: the nonce, then the ciphertext, as base64
CombineAndEncode(iv, ciphertext) == Btoa(FromCharCodes(iv \o ciphertext))

\* a decoder that skips the characters outside the alphabet
DecodeBlobLenient(encryptedBase64) ==
  Atob(SelectSeq(encryptedBase64,
                 LAMBDA ch : B64Index(ch) # -1 \/ ch = PadChar))

\* decrypt, line 81: Uint8Array.from(atob(encryptedBase64), c => c.charCodeAt(0))
\* (charCodeAt gives the byte that atob decoded)
DecodeBlob(encryptedBase64) == Atob(encryptedBase64)

\* a decrypt that takes 16 bytes for the nonce
ExtractIvSixteen(encryptedBytes) == Slice(encryptedBytes, 0, TagLen)

\* decrypt, line 84
ExtractIv(encryptedBytes) == Slice(encryptedBytes, 0, NonceLen)

\* decrypt, line 85
ExtractCiphertext(encryptedBytes) ==
  Slice(encryptedBytes, NonceLen, Len(encryptedBytes))

\* decrypt, lines 96-97
DecodeText(decrypted) == TextDecode(decrypted)

-----------------------------------------------------------------------------
(* Bounds and inputs                                                        *)

\* calls that may be in flight together
MaxCalls == 2

\* calls made in one run of the process
MaxStarts == MaxCalls + 1

\* provider operations that fail in one run
MaxFailures == 1

\* values the random source may return
NumNonces == 2

\* crypto.getRandomValues(new Uint8Array(12)): a 12-byte value
RandomNonces ==
  {[i \in 1..NonceLen |-> (37 * r + 11 * i) % 256] : r \in 1..NumNonces}

\* "", a string of 2-, 1-, 3- and 4-byte characters (e-acute, NUL, the euro
\* sign, an emoji that is a surrogate pair), a byte order mark and "a", a
\* lone surrogate
PlainTexts ==
  {<<>>, <<233, 0, 8364, 55357, 56832>>, <<65279, 97>>, <<55296>>}

\* the plaintexts of the calls that run together: "hi", and a byte order
\* mark and "a" (the stored blob of the earlier run is "[]")
ConcurrentPlainTexts == {<<104, 105>>, <<65279, 97>>}

\* enc.encode(SECRET_KEY), line 20
SecretKeyBytes == TextEncode(SECRET_KEY)

\* enc.encode('some-salt-value'), line 29
SaltBytes == TextEncode(SALT)

\* the key every process derives (lines 18-37)
DerivedMaterial ==
  DeriveKey(SaltBytes, ITERATIONS, ImportKey(SecretKeyBytes), KeyLength)

\* what encrypt returns for plaintext s when it draws the nonce iv
EncryptedBlob(K, iv, s) == CombineAndEncode(iv, AesGcmEncrypt(K, iv, TextEncode(s)))

\* a blob left in storage by an earlier run of the application: "[]"
PriorNonce == [i \in 1..NonceLen |-> (5 * i) % 256]

PriorStored ==
  [blob |-> EncryptedBlob(DerivedMaterial, PriorNonce, <<91, 93>>),
   plaintext |-> <<91, 93>>]

\* the amounts by which a byte of a stored blob is changed
TamperDeltas == {1, 128}

TamperedBlob(blob, i, d) ==
  LET body == DecodeBlob(blob).bytes
  IN  Btoa(FromCharCodes([body EXCEPT ![i] = (body[i] + d) % 256]))

TruncatedBlob(blob, k) ==
  Btoa(FromCharCodes(SubSeq(DecodeBlob(blob).bytes, 1, k)))

\* a blob sealed with the application's key over bytes that are no UTF-8
NonUtf8Blob ==
  CombineAndEncode(PriorNonce,
                   AesGcmEncrypt(DerivedMaterial, PriorNonce, <<97, 255>>))

\* the stored blob, as it is and damaged: a character replaced by '*', a
\* space inserted
StoredInputs(st) ==
  IF st = NoStored THEN {}
  ELSE {[arg |-> st.blob, kind |-> "stored", orig |-> st.plaintext],
        [arg |-> [st.blob EXCEPT ![2] = 42], kind |-> "badchar",
         orig |-> st.plaintext],
        [arg |-> <<st.blob[1], 32>> \o Tail(st.blob), kind |-> "whitespace",
         orig |-> st.plaintext]}

\* the stored blob with one byte of its body changed
TamperedInputs(st) ==
  IF st = NoStored THEN {}
  ELSE LET n == Len(DecodeBlob(st.blob).bytes)
       IN  {[arg |-> TamperedBlob(st.blob, i, d), kind |-> "tampered",
             orig |-> st.plaintext] : i \in 1..n, d \in TamperDeltas}

\* blobs of fewer than 12 bytes, and the blob that is no UTF-8
CraftedInputs ==
  {[arg |-> TruncatedBlob(PriorStored.blob, k), kind |-> "truncated",
    orig |-> <<>>] : k \in 0..(NonceLen - 1)}
  \cup {[arg |-> NonUtf8Blob, kind |-> "nonutf8", orig |-> <<>>]}

\* the blobs a caller hands to decrypt, one call at a time
DecryptInputs(st) == StoredInputs(st) \cup TamperedInputs(st) \cup CraftedInputs

\* the blobs of the calls that run together: the stored blob as it is
ConcurrentDecryptInputs(st) ==
  IF st = NoStored THEN {}
  ELSE {[arg |-> st.blob, kind |-> "stored", orig |-> st.plaintext]}

-----------------------------------------------------------------------------
(* State                                                                    *)

VARIABLES
  cryptoKey,    \* line 8: the cached CryptoKey, or null
  calls,        \* the encrypt and decrypt calls made and not yet taken: a bag
  stored,       \* the blob the caller keeps, with the plaintext it came from
  derivations,  \* times getKey went past the cache check: 0, 1, 2 or more
  assigns,      \* assignments to cryptoKey: 0, 1, 2 or more
  failures,     \* provider operations that failed
  started       \* calls made so far

\* the application around the service: App.tsx, CharacterSelector.tsx, the
\* useFavorites hook and githubService.ts
VARIABLES
  user,             \* App.tsx:58, the logged-in user or null
  token,            \* App.tsx:59, the auth token or null
  clock,            \* the last token login() made (authService: Date.now())
  mounted,          \* App.tsx:154, CharacterSelector (and its hook) is rendered
  remoteFavorites,  \* useFavorites, line 13
  localFavorites,   \* useFavorites, line 12
  isLoading,        \* useFavorites, line 14
  isSaving,         \* useFavorites, line 15
  loads,            \* the loadFavorites calls in flight: a bag
  saves,            \* the saveFavorites calls in flight: a bag
  storage,          \* localStorage, the items github_storage_<token>
  bsdStore,         \* localStorage, the item bsdFavorites
  owner,            \* the token remoteFavorites was loaded for (0: none)
  dirty,            \* remoteFavorites, user or token changed since the last save started
  latest            \* the last value remoteFavorites took since the login

serviceVars == <<cryptoKey, calls, stored, derivations, assigns, failures, started>>

hookVars ==
  <<user, token, clock, mounted, remoteFavorites, localFavorites, isLoading,
    isSaving, loads, saves, storage, bsdStore, owner, dirty, latest>>

\* a caller of githubService.ts that awaits its calls one after the other
VARIABLES
  saved             \* per token, the list of the last saveFavorites call that returned

callerVars == <<saved>>

\* ChessMode.tsx
VARIABLES
  game,               \* line 9
  fen,                \* line 10
  elo,                \* line 11
  history,            \* line 12
  playerColor,        \* line 13
  isAiThinking,       \* line 14
  status,             \* line 15
  showNewGameDialog,  \* line 16
  timer,              \* line 97, the timeout of the effect and the getAiMove it will call
  requests,           \* the getAiMove calls in flight: a bag
  gameNo              \* new games started so far

chessVars ==
  <<game, fen, elo, history, playerColor, isAiThinking, status,
    showNewGameDialog, timer, requests, gameNo>>

vars == <<serviceVars, hookVars, callerVars, chessVars>>

\* a call: its arguments and locals, where it stands (pc), its outcome, and
\* the provider operations it attempted (ops)
NewCall(op, arg, kind, orig) ==
  [op |-> op, arg |-> arg, kind |-> kind, orig |-> orig, pc |-> "start",
   key |-> NoKey, keyMaterial |-> NoKeyMaterial, iv |-> <<>>, data |-> <<>>,
   result |-> NoResult, ops |-> <<>>]

Resolved(v) == [ok |-> TRUE, value |-> v, error |-> "none"]

Rejected(e) == [ok |-> FALSE, value |-> <<>>, error |-> e]

Calls == BagToSet(calls)

\* counting up to "2 or more"
Count(n) == IF n < 2 THEN n + 1 ELSE n

InFlight == {call \in Calls : call.pc # "done"}

Settled == {call \in Calls : call.pc = "done"}

Replace(call, new) == (calls (-) SetToBag({call})) (+) SetToBag({new})

\* logins of one run
MaxLogins == 1

\* the token of the session restored at start (authService.ts: the token of
\* an earlier login), and the tokens login() makes in the run
RestoredToken == 1

Tokens == 1..(RestoredToken + MaxLogins)

NoUser == "null"

NoToken == 0

NoBlob == <<>>

\* githubService.ts:3
GITHUB_STORAGE_KEY_PREFIX == "github_storage_"

\* the key made of the prefix alone, whatever the token
StorageKeyPrefixOnly(tk) == <<GITHUB_STORAGE_KEY_PREFIX, NoToken>>

\* `${GITHUB_STORAGE_KEY_PREFIX}${token}`, githubService.ts:26 and 48
StorageKey(tk) == <<GITHUB_STORAGE_KEY_PREFIX, tk>>

\* the keys of localStorage that begin with the prefix
StorageKeys == {<<GITHUB_STORAGE_KEY_PREFIX, tk>> : tk \in {NoToken} \cup Tokens}

EmptyStorage == [key \in StorageKeys |-> NoBlob]

\* useState(null), line 13
NoFavorites == [t |-> "null", v |-> <<>>]

\* the service with no call made yet
ServiceInit ==
  /\ cryptoKey = NoKey
  /\ calls = EmptyBag
  /\ derivations = 0
  /\ assigns = 0
  /\ failures = 0
  /\ started = 0

\* nobody logged in, the character list not shown, nothing stored
HookIdle ==
  /\ user = NoUser
  /\ token = NoToken
  /\ clock = RestoredToken
  /\ mounted = FALSE
  /\ remoteFavorites = NoFavorites
  /\ localFavorites = <<>>
  /\ isLoading = FALSE
  /\ isSaving = FALSE
  /\ loads = EmptyBag
  /\ saves = EmptyBag
  /\ storage = EmptyStorage
  /\ bsdStore = NoBlob
  /\ owner = NoToken
  /\ dirty = FALSE
  /\ latest = NoFavorites

\* no saveFavorites call has returned
CallerIdle == saved = [tk \in {NoToken} \cup Tokens |-> NoFavorites]

\* chess.js, as ChessMode.tsx uses it.  A position is the moves that led to
\* it; a Chess object holds a position and the moves made on the object
\* itself (new Chess(fen) starts with none); no is the game the position is
\* of.  A game is over after MaxPlies moves.
MaxPlies == 3

\* new Chess()
NewChess(n) == [pos |-> <<>>, hist |-> <<>>, no |-> n]

\* game.fen()
Fen(g) == g.pos

\* new Chess(game.fen()), lines 43 and 106
CopyOf(g) == [pos |-> Fen(g), hist |-> <<>>, no |-> g.no]

\* game.turn()
Turn(g) == IF Len(g.pos) % 2 = 0 THEN "w" ELSE "b"

\* game.isGameOver()
IsGameOver(g) == Len(g.pos) >= MaxPlies

\* game.move(m), for a legal m
Moved(g, m) == [g EXCEPT !.pos = Append(g.pos, m), !.hist = Append(g.hist, m)]

\* game.history({ verbose: true })
HistoryOf(g) == g.hist

\* updateStatus, lines 18-37: what it sets
StatusOf(g) ==
  IF IsGameOver(g)
  THEN (IF Turn(g) = "w" THEN "Checkmate! Black wins."
                         ELSE "Checkmate! White wins.")
  ELSE (IF Turn(g) = "w" THEN "White's turn to move."
                         ELSE "Black's turn to move.")

AiFailedStatus == "AI failed to provide a valid move. You can continue playing."

AiErrorStatus == "Error fetching AI move. Please try again."

\* useState(800), line 11, and the step of the slider, line 168
InitialElo == 800

EloStep == 100

NoTimer == [set |-> FALSE, game |-> NewChess(0), elo |-> InitialElo]

\* ChessMode as it is first rendered, lines 9-16
ChessIdle ==
  /\ game = NewChess(0)
  /\ fen = Fen(NewChess(0))
  /\ elo = InitialElo
  /\ history = <<>>
  /\ playerColor = "w"
  /\ isAiThinking = FALSE
  /\ status = "White's turn to move."
  /\ showNewGameDialog = TRUE
  /\ timer = NoTimer
  /\ requests = EmptyBag
  /\ gameNo = 0

Init ==
  /\ ServiceInit
  /\ stored \in {NoStored, PriorStored}
  /\ HookIdle
  /\ CallerIdle
  /\ ChessIdle

-----------------------------------------------------------------------------
(* getKey, lines 14-40.  EnterGetKey is the part that runs with the call:   *)
(* the cache check and, past it, the start of importKey.                    *)

CanCall ==
  /\ BagCardinality(calls) < MaxCalls
  /\ started < MaxStarts

EnterGetKey(call) ==
  /\ CanCall
  /\ started' = started + 1
  /\ IF GetKeyCached(cryptoKey)
     THEN /\ calls' = calls (+) SetToBag({[call EXCEPT !.pc = "gotKey",
                                                      !.key = cryptoKey]})
          /\ derivations' = derivations
     ELSE /\ calls' = calls (+) SetToBag({[call EXCEPT !.pc = "importKey",
                                                      !.ops = <<"importKey">>]})
          /\ derivations' = Count(derivations)
  /\ UNCHANGED <<hookVars, callerVars, chessVars>>
  /\ UNCHANGED <<cryptoKey, stored, assigns, failures>>

\* encrypt(plaintext), line 48
CallEncrypt(s) == EnterGetKey(NewCall("encrypt", s, "plain", s))

\* decrypt(encryptedBase64), line 79
CallDecrypt(in) == EnterGetKey(NewCall("decrypt", in.arg, in.kind, in.orig))

\* lines 18-26: importKey resolves and deriveKey is started
ImportKeyResolve(call) ==
  /\ call.pc = "importKey"
  /\ calls' = Replace(call,
       [call EXCEPT !.pc = "deriveKey",
                    !.keyMaterial = ImportKey(SecretKeyBytes),
                    !.ops = Append(@, "deriveKey")])
  /\ UNCHANGED <<hookVars, callerVars, chessVars>>
  /\ UNCHANGED <<cryptoKey, stored, derivations, assigns, failures, started>>

\* a derivation with a salt drawn from the random source
DeriveKeyResolveRandomSalt(call) ==
  /\ call.pc = "deriveKey"
  /\ \E salt \in RandomNonces :
       LET k == [algorithm |-> "AES-GCM",
                 material |-> DeriveKey(salt, ITERATIONS, call.keyMaterial,
                                        KeyLength)]
       IN  /\ cryptoKey' = k
           /\ calls' = Replace(call,
                [call EXCEPT !.pc = "gotKey", !.key = k,
                             !.keyMaterial = NoKeyMaterial])
  /\ assigns' = Count(assigns)
  /\ UNCHANGED <<hookVars, callerVars, chessVars>>
  /\ UNCHANGED <<stored, derivations, failures, started>>

\* lines 26-39: deriveKey resolves, the key is cached and returned
DeriveKeyResolve(call) ==
  /\ call.pc = "deriveKey"
  /\ LET k == [algorithm |-> "AES-GCM",
               material |-> DeriveKey(SaltBytes, ITERATIONS,
                                      call.keyMaterial, KeyLength)]
     IN  /\ cryptoKey' = k
         /\ calls' = Replace(call,
              [call EXCEPT !.pc = "gotKey", !.key = k,
                           !.keyMaterial = NoKeyMaterial])
  /\ assigns' = Count(assigns)
  /\ UNCHANGED <<hookVars, callerVars, chessVars>>
  /\ UNCHANGED <<stored, derivations, failures, started>>

\* a call that tries the failed operation again
ProviderFailsRetried(call) ==
  /\ call.pc \in {"importKey", "deriveKey", "cipher"}
  /\ failures < MaxFailures
  /\ failures' = failures + 1
  /\ calls' = Replace(call,
       [call EXCEPT !.ops = Append(@, call.ops[Len(call.ops)])])
  /\ UNCHANGED <<hookVars, callerVars, chessVars>>
  /\ UNCHANGED <<cryptoKey, stored, derivations, assigns, started>>

\* a failure that leaves a key without material in the cache
ProviderFailsPartialKey(call) ==
  /\ call.pc \in {"importKey", "deriveKey", "cipher"}
  /\ failures < MaxFailures
  /\ failures' = failures + 1
  /\ cryptoKey' = IF call.pc = "cipher" THEN cryptoKey
                  ELSE [algorithm |-> "AES-GCM", material |-> <<>>]
  /\ calls' = Replace(call,
       [call EXCEPT !.pc = "done", !.keyMaterial = NoKeyMaterial,
                    !.data = <<>>, !.result = Rejected("ProviderError")])
  /\ UNCHANGED <<hookVars, callerVars, chessVars>>
  /\ UNCHANGED <<stored, derivations, assigns, started>>

\* importKey, deriveKey, encrypt or decrypt of the provider fails: the await
\* throws and the call rejects
ProviderFails(call) ==
  /\ call.pc \in {"importKey", "deriveKey", "cipher"}
  /\ failures < MaxFailures
  /\ failures' = failures + 1
  /\ calls' = Replace(call,
       [call EXCEPT !.pc = "done", !.keyMaterial = NoKeyMaterial,
                    !.data = <<>>, !.result = Rejected("ProviderError")])
  /\ UNCHANGED <<hookVars, callerVars, chessVars>>
  /\ UNCHANGED <<cryptoKey, stored, derivations, assigns, started>>

-----------------------------------------------------------------------------
(* encrypt, lines 47-71 *)

\* lines 49-62: encode, draw the nonce, start the cipher
EncryptContinue(call) ==
  /\ call.pc = "gotKey"
  /\ call.op = "encrypt"
  /\ \E iv \in RandomNonces :
       calls' = Replace(call,
         [call EXCEPT !.pc = "cipher", !.iv = iv,
                      !.data = TextEncode(call.arg),
                      !.ops = Append(@, "encrypt")])
  /\ UNCHANGED <<hookVars, callerVars, chessVars>>
  /\ UNCHANGED <<cryptoKey, stored, derivations, assigns, failures, started>>

\* lines 64-70: the cipher resolves; nonce and ciphertext are returned as base64
EncryptResolve(call) ==
  /\ call.pc = "cipher"
  /\ call.op = "encrypt"
  /\ LET ciphertext == AesGcmEncrypt(call.key.material, call.iv, call.data)
     IN  calls' = Replace(call,
           [call EXCEPT !.pc = "done", !.data = <<>>,
                        !.result = Resolved(CombineAndEncode(call.iv, ciphertext))])
  /\ UNCHANGED <<hookVars, callerVars, chessVars>>
  /\ UNCHANGED <<cryptoKey, stored, derivations, assigns, failures, started>>

-----------------------------------------------------------------------------
(* decrypt, lines 78-98 *)

\* lines 81-94: decode the blob (atob may throw), split it, start the cipher
DecryptContinue(call) ==
  /\ call.pc = "gotKey"
  /\ call.op = "decrypt"
  /\ LET encryptedBytes == DecodeBlob(call.arg)
     IN  IF ~encryptedBytes.ok
         THEN calls' = Replace(call,
                [call EXCEPT !.pc = "done",
                             !.result = Rejected("InvalidCharacterError")])
         ELSE calls' = Replace(call,
                [call EXCEPT !.pc = "cipher",
                             !.iv = ExtractIv(encryptedBytes.bytes),
                             !.data = ExtractCiphertext(encryptedBytes.bytes),
                             !.ops = Append(@, "decrypt")])
  /\ UNCHANGED <<hookVars, callerVars, chessVars>>
  /\ UNCHANGED <<cryptoKey, stored, derivations, assigns, failures, started>>

\* lines 87-97: the cipher settles; the plaintext bytes are decoded to text
DecryptSettle(call) ==
  /\ call.pc = "cipher"
  /\ call.op = "decrypt"
  /\ LET decrypted == AesGcmDecrypt(call.key.material, call.iv, call.data)
     IN  calls' = Replace(call,
           [call EXCEPT !.pc = "done", !.data = <<>>,
                        !.result =
                           IF decrypted.ok
                           THEN Resolved(DecodeText(decrypted.bytes))
                           ELSE Rejected("OperationError")])
  /\ UNCHANGED <<hookVars, callerVars, chessVars>>
  /\ UNCHANGED <<cryptoKey, stored, derivations, assigns, failures, started>>

-----------------------------------------------------------------------------
(* The caller *)

\* the caller keeps the blob encrypt returned (githubService.ts:27)
Store(call) ==
  /\ call.pc = "done"
  /\ call.op = "encrypt"
  /\ call.result.ok
  /\ stored' = [blob |-> call.result.value, plaintext |-> call.arg]
  /\ calls' = calls (-) SetToBag({call})
  /\ UNCHANGED <<hookVars, callerVars, chessVars>>
  /\ UNCHANGED <<cryptoKey, derivations, assigns, failures, started>>

\* the caller is done with the outcome of a call
Discard(call) ==
  /\ call.pc = "done"
  /\ calls' = calls (-) SetToBag({call})
  /\ UNCHANGED <<hookVars, callerVars, chessVars>>
  /\ UNCHANGED <<cryptoKey, stored, derivations, assigns, failures, started>>

\* the steps of the calls in flight and of the caller
Step(call) ==
  \/ ImportKeyResolve(call)
  \/ DeriveKeyResolve(call)
  \/ ProviderFails(call)
  \/ EncryptContinue(call)
  \/ EncryptResolve(call)
  \/ DecryptContinue(call)
  \/ DecryptSettle(call)
  \/ Store(call)
  \/ Discard(call)

\* calls are made at any time, also while others are in flight
Next ==
  \/ CanCall /\ \E s \in ConcurrentPlainTexts : CallEncrypt(s)
  \/ CanCall /\ \E in \in ConcurrentDecryptInputs(stored) : CallDecrypt(in)
  \/ \E call \in Calls : Step(call)

Spec == Init /\ [][Next]_vars

\* each call is made when the call before it has settled and its outcome
\* was taken
NextSequential ==
  \/ calls = EmptyBag /\ CanCall /\ \E s \in PlainTexts : CallEncrypt(s)
  \/ calls = EmptyBag /\ CanCall
       /\ \E in \in DecryptInputs(stored) : CallDecrypt(in)
  \/ \E call \in Calls : Step(call)

SpecSequential == Init /\ [][NextSequential]_vars

\* decrypt is called, one call at a time, with blobs of fewer than 12 bytes
TruncatedInputs == {in \in CraftedInputs : in.kind = "truncated"}

NextTruncated ==
  \/ calls = EmptyBag /\ CanCall /\ \E in \in TruncatedInputs : CallDecrypt(in)
  \/ \E call \in Calls :
       \/ ImportKeyResolve(call)
       \/ DeriveKeyResolve(call)
       \/ ProviderFails(call)
       \/ DecryptContinue(call)
       \/ DecryptSettle(call)
       \/ Discard(call)

\* the steps by which a decrypt call in flight moves on
DecryptProgress ==
  \E call \in Calls :
    \/ ImportKeyResolve(call)
    \/ DeriveKeyResolve(call)
    \/ DecryptContinue(call)
    \/ DecryptSettle(call)

\* the event loop runs the continuation of a settled await: a pending
\* promise of the provider settles, a resolved await continues
FairTruncated == Init /\ [][NextTruncated]_vars /\ WF_vars(DecryptProgress)

-----------------------------------------------------------------------------
(* Vocabulary of the claims *)

DecryptsOf(kind) == {call \in Calls : call.op = "decrypt" /\ call.kind = kind}

\* a character that is neither of the base64 alphabet nor the padding
OutsideAlphabet(ch) == B64Index(ch) = -1 /\ ch # PadChar

HasOutsideChar(s) == \E i \in 1..Len(s) : OutsideAlphabet(s[i])

HasOutsideNonSpaceChar(s) ==
  \E i \in 1..Len(s) : OutsideAlphabet(s[i]) /\ ~IsAsciiWhitespace(s[i])

\* the bytes the cipher authenticates for a blob, under the application's key
Authenticated(blob) ==
  LET b == DecodeBlob(blob)
  IN  IF ~b.ok THEN [ok |-> FALSE, bytes |-> <<>>]
      ELSE AesGcmDecrypt(DerivedMaterial, ExtractIv(b.bytes),
                         ExtractCiphertext(b.bytes))

\* the blob is valid base64 of fewer than NonceLen bytes
IsTruncated(blob) ==
  LET b == DecodeBlob(blob) IN b.ok /\ Len(b.bytes) < NonceLen

\* the encrypt calls that have drawn their nonce
Drawn == {call \in Calls : call.op = "encrypt" /\ call.pc \in {"cipher", "done"}
                           /\ call.iv # <<>>}

-----------------------------------------------------------------------------
(* C1 (round trip): for every plaintext s that has a UTF-8 form, decrypt of *)
(* the blob encrypt(s) returned, when it returns, returns exactly s.        *)
C1_RoundTrip ==
  \A call \in DecryptsOf("stored") :
    (call.pc = "done" /\ call.result.ok /\ IsWellFormed(call.orig))
      => call.result.value = call.orig

(* C2 (tamper detection): decrypt of a blob of encrypt with one byte of its *)
(* decoded body changed, nonce byte or ciphertext or tag byte, fails; it    *)
(* never returns a plaintext.                                               *)
C2_TamperDetected ==
  \A call \in DecryptsOf("tampered") :
    call.pc = "done" => (~call.result.ok /\ call.result.value = <<>>)

C2_Witness ==
  \E call \in DecryptsOf("tampered") :
    /\ call.pc = "done"
    /\ call.result.error = "OperationError"
    /\ "decrypt" \in {call.ops[i] : i \in 1..Len(call.ops)}

C4_DecodeErrorBeforeCrypto ==
  \A call \in Calls :
    (call.op = "decrypt" /\ call.pc = "done" /\ HasOutsideChar(call.arg)
       /\ call.result.error # "ProviderError")
      => (call.result.error = "InvalidCharacterError" /\ call.ops = <<>>)

(* C4, amended: decrypt of a blob with a character that is neither of the   *)
(* base64 alphabet nor ASCII whitespace never attempts the cipher call and  *)
(* never returns a plaintext; it fails with the decode error once the key   *)
(* is there (key import and derivation run first when the key is not        *)
(* cached), or with the failure of the key import or derivation.            *)
C4_DecodeErrorBeforeCipher ==
  \A call \in Calls :
    (call.op = "decrypt" /\ HasOutsideNonSpaceChar(call.arg))
      => /\ call.pc # "cipher"
         /\ \A i \in 1..Len(call.ops) : call.ops[i] \in {"importKey", "deriveKey"}
         /\ call.pc = "done"
              => /\ ~call.result.ok
                 /\ call.result.error \in {"InvalidCharacterError", "ProviderError"}
                 /\ call.result.error = "ProviderError" => Len(call.ops) > 0
                 /\ call.ops = <<>>
                      => call.result.error = "InvalidCharacterError"

C4_Witness ==
  \E call \in DecryptsOf("badchar") :
    /\ call.pc = "done"
    /\ HasOutsideNonSpaceChar(call.arg)
    /\ call.result.error = "InvalidCharacterError"
    /\ call.ops = <<"importKey", "deriveKey">>

(* C5 (invalid text): decrypt fails when the bytes the cipher authenticated *)
(* are not valid UTF-8.                                                     *)
C5_RejectsInvalidUtf8 ==
  \A call \in Calls :
    (call.op = "decrypt" /\ call.pc = "done" /\ Authenticated(call.arg).ok
       /\ ~IsValidUtf8(Authenticated(call.arg).bytes))
      => ~call.result.ok

(* C6 (truncation): decrypt of a valid base64 blob of fewer than 12 bytes   *)
(* never returns a plaintext, and the call settles, with a failure.         *)
C6_TruncatedFails ==
  /\ [](\A call \in Calls :
          (call.op = "decrypt" /\ IsTruncated(call.arg))
            => (call.result.value = <<>>
                /\ (call.pc = "done" => ~call.result.ok)))
  /\ (\E call \in InFlight : call.op = "decrypt" /\ IsTruncated(call.arg))
       ~> (\E call \in Settled :
             call.op = "decrypt" /\ IsTruncated(call.arg) /\ ~call.result.ok)

C6_Witness ==
  \E call \in DecryptsOf("truncated") :
    /\ IsTruncated(call.arg)
    /\ call.pc = "done"
    /\ call.result.error = "OperationError"
    /\ call.iv = DecodeBlob(call.arg).bytes
    /\ Len(call.iv) > 0

(* C7 (concurrent derivation is harmless): when two derivations ran, every  *)
(* call holds the same key material, the cache holds it, and the blob an    *)
(* overlapping call produced is decrypted to its plaintext by the calls     *)
(* that decrypt it.                                                         *)
C7_ConcurrentDerivationHarmless ==
  assigns = 2 =>
    /\ cryptoKey.material = DerivedMaterial
    /\ \A call \in Calls : call.key # NoKey => call.key = cryptoKey
    /\ \A call \in DecryptsOf("stored") :
         (call.pc = "done" /\ call.result.ok /\ IsWellFormed(call.orig))
           => call.result.value = call.orig

C9_DerivedOnce ==
  /\ started = 0 => cryptoKey = NoKey
  /\ derivations <= 1

(* C9, amended: the cache is empty until the first call; in a sequence of   *)
(* calls that do not overlap the derivation runs again only after a         *)
(* failed one, the key is assigned at most once, and no call made after     *)
(* that goes past the cache check.                                          *)
C9_DerivedUntilCached ==
  /\ [](/\ started = 0 => cryptoKey = NoKey
        /\ assigns <= 1
        /\ derivations = 2 => failures >= 1
        /\ cryptoKey # NoKey => assigns = 1)
  /\ [][cryptoKey # NoKey => derivations' = derivations]_vars

C9_Witness ==
  /\ cryptoKey # NoKey
  /\ started >= 2
  /\ derivations = 1
  /\ \E call \in Settled : call.ops = <<"decrypt">> /\ call.result.ok

(* C10 (key stability): a blob encrypt produced in this process is          *)
(* decrypted to its plaintext by a later decrypt, with other calls made     *)
(* in between, under the key the process derived.                           *)
C10_KeyStability ==
  \A call \in DecryptsOf("stored") :
    (call.pc = "done" /\ started >= 3 /\ stored # PriorStored
       /\ IsWellFormed(call.orig))
      => /\ call.key.material = DerivedMaterial
         /\ call.result.ok => call.result.value = call.orig

-----------------------------------------------------------------------------
(* Vocabulary of the claims about single calls *)

\* what decrypt does with a blob when it runs alone, under the derived key
DecryptAlone(blob) ==
  IF ~DecodeBlob(blob).ok THEN Rejected("InvalidCharacterError")
  ELSE IF Authenticated(blob).ok
       THEN Resolved(DecodeText(Authenticated(blob).bytes))
       ELSE Rejected("OperationError")

\* the calls the provider did not fail
Unfailed == {call \in Settled : call.result.error # "ProviderError"}

HasDuplicates(s) == \E i, j \in 1..Len(s) : i < j /\ s[i] = s[j]

\* the step is the failure of a provider operation of a call
IsFailureStep == failures' # failures

\* the step is a call of encrypt or decrypt
IsCallStep == started' # started

(* C11 (ciphertext is not deterministic): the blob a second encrypt(s)      *)
(* returns differs from the blob an earlier encrypt(s) of the process       *)
(* returned, and each of the blobs decrypts to s.                           *)
C11_FreshCiphertext ==
  \A call \in Unfailed :
    (call.op = "encrypt" /\ IsWellFormed(call.arg))
      => /\ (stored # NoStored /\ stored # PriorStored
               /\ stored.plaintext = call.arg /\ started >= 2)
              => call.result.value # stored.blob
         /\ DecryptAlone(call.result.value) = Resolved(call.arg)

(* C13 (no internal retry): no call attempts a provider operation twice; a  *)
(* call the provider failed (a failed import, derivation or cipher call) is *)
(* settled, rejected, and has no value.                                     *)
C13_NoRetry ==
  \A call \in Calls :
    /\ ~HasDuplicates(call.ops)
    /\ Len(call.ops) <= 3
    /\ call.result.error \in {"ProviderError", "OperationError"}
         => (call.pc = "done" /\ ~call.result.ok /\ call.result.value = <<>>)
    /\ call.result.ok => call.pc = "done"

C13_Witness ==
  \E call \in Settled :
    /\ call.result.error = "ProviderError"
    /\ call.ops = <<"importKey", "deriveKey", "encrypt">>

(* C14 (independent operations): in every interleaving each call has the    *)
(* outcome it has alone: the blob of an encrypt call decrypts to the call's *)
(* plaintext, a decrypt call returns the plaintext of its blob; and no step *)
(* of a call changes shared state other than the cached key.                *)
C14_Independent ==
  /\ [](\A call \in Unfailed :
          /\ call.op = "encrypt" /\ IsWellFormed(call.arg)
               => DecryptAlone(call.result.value) = Resolved(call.arg)
          /\ call.op = "decrypt" /\ call.kind = "stored"
               /\ IsWellFormed(call.orig)
               => call.result = Resolved(call.orig))
  /\ [][stored' = stored \/ \E call \in Calls : Store(call)]_vars

(* C16 (blob layout): the decoded blob of encrypt(s) is the nonce (12       *)
(* bytes), then the ciphertext and the tag (16 bytes): 12 + the UTF-8       *)
(* length of s + 16 bytes, at least 28; decrypt takes the first 12 bytes of *)
(* the decoded blob as the nonce and the rest as the ciphertext.            *)
C16_BlobLayout ==
  \A call \in Calls :
    /\ (call.op = "encrypt" /\ call.pc = "done" /\ call.result.ok)
         => LET b == DecodeBlob(call.result.value).bytes
            IN  /\ Len(b) = NonceLen + Len(TextEncode(call.arg)) + TagLen
                /\ Len(b) >= 28
                /\ SubSeq(b, 1, NonceLen) = call.iv
                /\ AesGcmDecrypt(call.key.material, call.iv,
                                 SubSeq(b, NonceLen + 1, Len(b)))
                     = [ok |-> TRUE, bytes |-> TextEncode(call.arg)]
    /\ (call.op = "decrypt" /\ call.pc = "cipher")
         => LET b == DecodeBlob(call.arg).bytes
            IN  /\ call.iv \o call.data = b
                /\ Len(b) >= NonceLen => Len(call.iv) = NonceLen

C16_Witness ==
  \E call \in DecryptsOf("stored") :
    /\ stored # PriorStored
    /\ call.pc = "cipher"
    /\ Len(TextEncode(call.orig)) = 10
    /\ Len(call.iv) = NonceLen
    /\ Len(call.data) = 10 + TagLen

(* C17 (a failed derivation leaves the cache as it was): the failure of a   *)
(* provider operation rejects its call and does not change the cache, so    *)
(* the cache is unset or holds the whole derived key; a call made while the *)
(* cache is unset starts a derivation; and the calls that succeed after a   *)
(* failure return what they return without one.                             *)
C17_FailureLeavesCache ==
  /\ [](/\ cryptoKey # NoKey
             => (cryptoKey.algorithm = "AES-GCM"
                 /\ cryptoKey.material = DerivedMaterial)
        /\ \A call \in Unfailed :
             failures >= 1 =>
               /\ call.op = "encrypt" /\ call.result.ok
                    => call.result.value
                         = EncryptedBlob(DerivedMaterial, call.iv, call.arg)
               /\ call.op = "decrypt" => call.result = DecryptAlone(call.arg))
  /\ [][IsFailureStep
          => /\ cryptoKey' = cryptoKey
             /\ \E call \in BagToSet(calls') :
                  /\ call.result = Rejected("ProviderError")
                  /\ CopiesIn(call, calls') > CopiesIn(call, calls)]_vars
  /\ [][(IsCallStep /\ cryptoKey = NoKey)
          => \E call \in BagToSet(calls') :
               /\ call.pc = "importKey"
               /\ CopiesIn(call, calls') > CopiesIn(call, calls)]_vars

C17_Witness ==
  /\ failures >= 1
  /\ cryptoKey # NoKey
  /\ \E call \in Settled :
       /\ call.op = "decrypt" /\ call.result.ok
       /\ call.ops = <<"importKey", "deriveKey", "decrypt">>
  /\ stored # NoStored

-----------------------------------------------------------------------------
(* JSON.stringify and JSON.parse, as githubService.ts calls them.  A value   *)
(* is [t |-> its type, v |-> its content]: the characters of a string or of *)
(* a number, the elements of an array, the keys and values of an object in  *)
(* turn.                                                                    *)

JsNull == [t |-> "null", v |-> <<>>]

JsString(chars) == [t |-> "string", v |-> chars]

JsArray(elems) == [t |-> "array", v |-> elems]

\* an array of strings, as the favourites are
JsStrings(ids) == JsArray([i \in 1..Len(ids) |-> JsString(ids[i])])

HexDigit(n) == IF n < 10 THEN 48 + n ELSE 97 + (n - 10)

HexValue(c) ==
  IF c >= 48 /\ c <= 57 THEN c - 48
  ELSE IF c >= 97 /\ c <= 102 THEN c - 97 + 10
  ELSE IF c >= 65 /\ c <= 70 THEN c - 65 + 10
  ELSE -1

\* QuoteJSONString, one code unit (a surrogate pair is left as it is)
QuoteUnit(s, i) ==
  LET c == s[i]
      u == <<92, 117, HexDigit(c \div 4096), HexDigit((c \div 256) % 16),
             HexDigit((c \div 16) % 16), HexDigit(c % 16)>>
  IN  IF c = 34 THEN <<92, 34>>
      ELSE IF c = 92 THEN <<92, 92>>
      ELSE IF c = 8 THEN <<92, 98>>
      ELSE IF c = 9 THEN <<92, 116>>
      ELSE IF c = 10 THEN <<92, 110>>
      ELSE IF c = 12 THEN <<92, 102>>
      ELSE IF c = 13 THEN <<92, 114>>
      ELSE IF c < 32 THEN u
      ELSE IF IsHighSurrogate(c)
           THEN IF i < Len(s) /\ IsLowSurrogate(s[i + 1]) THEN <<c>> ELSE u
      ELSE IF IsLowSurrogate(c)
           THEN IF i > 1 /\ IsHighSurrogate(s[i - 1]) THEN <<c>> ELSE u
      ELSE <<c>>

RECURSIVE QuoteFrom(_, _)
QuoteFrom(s, i) ==
  IF i > Len(s) THEN <<>> ELSE QuoteUnit(s, i) \o QuoteFrom(s, i + 1)

RECURSIVE JsonStringify(_)
RECURSIVE StringifyElems(_, _)
StringifyElems(elems, i) ==
  IF i > Len(elems) THEN <<>>
  ELSE (IF i > 1 THEN <<44>> ELSE <<>>) \o JsonStringify(elems[i])
         \o StringifyElems(elems, i + 1)

JsonStringify(val) ==
  IF val.t = "string" THEN <<34>> \o QuoteFrom(val.v, 1) \o <<34>>
  ELSE IF val.t = "array" THEN <<91>> \o StringifyElems(val.v, 1) \o <<93>>
  ELSE IF val.t = "number" THEN val.v
  ELSE IF val.t = "true" THEN <<116, 114, 117, 101>>
  ELSE IF val.t = "false" THEN <<102, 97, 108, 115, 101>>
  ELSE <<110, 117, 108, 108>>

IsJsonWhitespace(c) == c \in {9, 10, 13, 32}

IsDigit(c) == c >= 48 /\ c <= 57

At(s, i) == IF i >= 1 /\ i <= Len(s) THEN s[i] ELSE -1

RECURSIVE SkipWs(_, _)
SkipWs(s, i) == IF IsJsonWhitespace(At(s, i)) THEN SkipWs(s, i + 1) ELSE i

RECURSIVE SkipDigits(_, _)
SkipDigits(s, i) == IF IsDigit(At(s, i)) THEN SkipDigits(s, i + 1) ELSE i

ParseFail == [ok |-> FALSE, pos |-> 0, val |-> JsNull]

ParseOk(pos, val) == [ok |-> TRUE, pos |-> pos, val |-> val]

\* a number from position i: -? (0 | [1-9][0-9]*) (. [0-9]+)? ([eE] [+-]? [0-9]+)?
ParseNumber(s, i) ==
  LET a == IF At(s, i) = 45 THEN i + 1 ELSE i
      b == IF At(s, a) = 48 THEN a + 1
           ELSE IF IsDigit(At(s, a)) THEN SkipDigits(s, a) ELSE 0
      c == IF b = 0 THEN 0
           ELSE IF At(s, b) = 46
                THEN IF IsDigit(At(s, b + 1)) THEN SkipDigits(s, b + 1) ELSE 0
           ELSE b
      e == IF c = 0 THEN 0
           ELSE IF At(s, c) \in {69, 101}
                THEN LET d == IF At(s, c + 1) \in {43, 45} THEN c + 2 ELSE c + 1
                     IN  IF IsDigit(At(s, d)) THEN SkipDigits(s, d) ELSE 0
           ELSE c
  IN  IF e = 0 THEN ParseFail
      ELSE ParseOk(e, [t |-> "number", v |-> SubSeq(s, i, e - 1)])

\* the literal word from position i
ParseLiteral(s, i, word, val) ==
  IF i + Len(word) - 1 <= Len(s) /\ SubSeq(s, i, i + Len(word) - 1) = word
  THEN ParseOk(i + Len(word), val) ELSE ParseFail

\* a string from the position after its opening quote
RECURSIVE ParseString(_, _, _)
ParseString(s, i, acc) ==
  LET c == At(s, i) IN
  IF c < 32 THEN ParseFail
  ELSE IF c = 34 THEN ParseOk(i + 1, JsString(acc))
  ELSE IF c = 92
       THEN LET x == At(s, i + 1)
                h == [k \in 1..4 |-> HexValue(At(s, i + 1 + k))]
            IN  IF x = 34 \/ x = 92 \/ x = 47
                THEN ParseString(s, i + 2, Append(acc, x))
                ELSE IF x = 98 THEN ParseString(s, i + 2, Append(acc, 8))
                ELSE IF x = 102 THEN ParseString(s, i + 2, Append(acc, 12))
                ELSE IF x = 110 THEN ParseString(s, i + 2, Append(acc, 10))
                ELSE IF x = 114 THEN ParseString(s, i + 2, Append(acc, 13))
                ELSE IF x = 116 THEN ParseString(s, i + 2, Append(acc, 9))
                ELSE IF x = 117 /\ \A k \in 1..4 : h[k] >= 0
                THEN ParseString(s, i + 6,
                       Append(acc, h[1] * 4096 + h[2] * 256 + h[3] * 16 + h[4]))
                ELSE ParseFail
  ELSE ParseString(s, i + 1, Append(acc, c))

RECURSIVE ParseValue(_, _)
RECURSIVE ParseElements(_, _, _)
RECURSIVE ParseMembers(_, _, _)

\* the elements of an array from position i, after '[' or ','
ParseElements(s, i, acc) ==
  LET r == ParseValue(s, SkipWs(s, i)) IN
  IF ~r.ok THEN ParseFail
  ELSE LET j == SkipWs(s, r.pos) IN
       IF At(s, j) = 44 THEN ParseElements(s, j + 1, Append(acc, r.val))
       ELSE IF At(s, j) = 93 THEN ParseOk(j + 1, JsArray(Append(acc, r.val)))
       ELSE ParseFail

\* the members of an object from position i, after '{' or ','
ParseMembers(s, i, acc) ==
  LET k == SkipWs(s, i) IN
  IF At(s, k) # 34 THEN ParseFail
  ELSE LET key == ParseString(s, k + 1, <<>>) IN
       IF ~key.ok \/ At(s, SkipWs(s, key.pos)) # 58 THEN ParseFail
       ELSE LET r == ParseValue(s, SkipWs(s, SkipWs(s, key.pos) + 1)) IN
            IF ~r.ok THEN ParseFail
            ELSE LET j == SkipWs(s, r.pos)
                     more == acc \o <<key.val, r.val>>
                 IN  IF At(s, j) = 44 THEN ParseMembers(s, j + 1, more)
                     ELSE IF At(s, j) = 125
                          THEN ParseOk(j + 1, [t |-> "object", v |-> more])
                     ELSE ParseFail

ParseValue(s, i) ==
  LET c == At(s, i) IN
  IF c = 34 THEN ParseString(s, i + 1, <<>>)
  ELSE IF c = 91
       THEN IF At(s, SkipWs(s, i + 1)) = 93
            THEN ParseOk(SkipWs(s, i + 1) + 1, JsArray(<<>>))
            ELSE ParseElements(s, i + 1, <<>>)
  ELSE IF c = 123
       THEN IF At(s, SkipWs(s, i + 1)) = 125
            THEN ParseOk(SkipWs(s, i + 1) + 1, [t |-> "object", v |-> <<>>])
            ELSE ParseMembers(s, i + 1, <<>>)
  ELSE IF c = 116
       THEN ParseLiteral(s, i, <<116, 114, 117, 101>>, [t |-> "true", v |-> <<>>])
  ELSE IF c = 102
       THEN ParseLiteral(s, i, <<102, 97, 108, 115, 101>>,
                         [t |-> "false", v |-> <<>>])
  ELSE IF c = 110 THEN ParseLiteral(s, i, <<110, 117, 108, 108>>, JsNull)
  ELSE IF c = 45 \/ IsDigit(c) THEN ParseNumber(s, i)
  ELSE ParseFail

\* JSON.parse: [ok |-> FALSE] is the SyntaxError it throws
JsonParse(text) ==
  LET r == ParseValue(text, SkipWs(text, 1)) IN
  IF r.ok /\ SkipWs(text, r.pos) = Len(text) + 1
  THEN [ok |-> TRUE, val |-> r.val]
  ELSE [ok |-> FALSE, val |-> JsNull]

\* the falsy values among those JSON.parse returns: null, false, 0, ""
IsFalsy(val) ==
  \/ val.t \in {"null", "false"}
  \/ val.t = "string" /\ val.v = <<>>
  \/ val.t = "number"
       /\ \A i \in 1..Len(val.v) :
            (\A j \in 1..i : val.v[j] \notin {69, 101}) => ~(val.v[i] \in 49..57)

-----------------------------------------------------------------------------
(* The favourites: githubService.ts (saveFavorites, loadFavorites), the     *)
(* useFavorites hook and the handlers of App.tsx and CharacterSelector.tsx  *)
(* that drive it.  A step is one event (a click, a promise that settles)    *)
(* with the render it causes and the effects of that render.  encrypt and   *)
(* decrypt are taken as one await each: a call's outcome does not depend on *)
(* the calls it overlaps with.  Stored values that parse to something other *)
(* than null or a list of strings are not among the inputs.                 *)

\* loadFavorites and saveFavorites calls in flight that a hook may leave
\* behind when it is unmounted
MaxOrphans == 1

\* the nonces getRandomValues gives the saves
NumSaveNonces == 1

SaveNonces ==
  {[i \in 1..NonceLen |-> (37 * r + 11 * i) % 256] : r \in 1..NumSaveNonces}

\* the ids of the characters whose star is clicked: "b"
Characters == {<<98>>}

TheUser == "stellar.user@example.com"

\* the key getKey returns
TheKey == [algorithm |-> "AES-GCM", material |-> DerivedMaterial]

serviceRest == <<calls, stored, derivations, assigns, started>>

\* what an earlier run left under the restored token: JSON.stringify(["a"])
\* sealed by encrypt
RestoredFavorites == JsStrings(<<<<97>>>>)

RestoredBlob ==
  EncryptedBlob(DerivedMaterial, PriorNonce, JsonStringify(RestoredFavorites))

\* the values loadFavorites may find: nothing, the blob of the earlier run,
\* that blob cut short, with a byte changed, with a character that is no
\* base64, and the texts "hi" and "null" sealed with the application's key
RestoredBlobs ==
  {NoBlob,
   RestoredBlob,
   TruncatedBlob(RestoredBlob, 5),
   TamperedBlob(RestoredBlob, NonceLen + 1, 1),
   [RestoredBlob EXCEPT ![2] = 42],
   EncryptedBlob(DerivedMaterial, PriorNonce, <<104, 105>>),
   EncryptedBlob(DerivedMaterial, PriorNonce, <<110, 117, 108, 108>>)}

\* the ids a list of favourites may hold, and the lists
Ids == {<<97>>} \cup Characters

FavoriteLists ==
  {JsStrings(s) : s \in {q \in UNION {[1..n -> Ids] : n \in 0..Cardinality(Ids)} :
                           \A i, j \in DOMAIN q : q[i] = q[j] => i = j}}

\* JSON.stringify(favorites), githubService.ts:22, by list: worked out once
JsonText == [favs \in FavoriteLists |-> JsonStringify(favs)]

JsonTextOf(favs) ==
  IF favs \in FavoriteLists THEN JsonText[favs] ELSE JsonStringify(favs)

\* encrypt(text), githubService.ts:22, by nonce and list: worked out once
Sealed ==
  [iv \in SaveNonces, favs \in FavoriteLists |->
     EncryptedBlob(DerivedMaterial, iv, JsonText[favs])]

SealedOf(iv, favs) ==
  IF favs \in FavoriteLists THEN Sealed[iv, favs]
  ELSE EncryptedBlob(DerivedMaterial, iv, JsonStringify(favs))

\* the values storage may hold under a token's key
StoredBlobs ==
  (RestoredBlobs \ {NoBlob})
    \cup {Sealed[iv, favs] : iv \in SaveNonces, favs \in FavoriteLists}


Fulfilled(val) == [state |-> "fulfilled", val |-> val]

Pending == [state |-> "pending", val |-> JsNull]

LoggedIn(u, tk) == u # NoUser /\ tk # NoToken

\* loadFavorites without the test of its token
NewLoadUnguarded(tk) ==
  [token |-> tk, blob |-> storage[StorageKey(tk)], live |-> TRUE,
   pc |-> IF storage[StorageKey(tk)] = NoBlob THEN "settled" ELSE "decrypt",
   result |-> IF storage[StorageKey(tk)] = NoBlob THEN Fulfilled(JsNull)
              ELSE Pending]

\* loadFavorites(token) up to its first await: lines 41-58
NewLoad(tk) ==
  IF tk = NoToken
  THEN [token |-> tk, blob |-> NoBlob, live |-> TRUE, pc |-> "settled",
        result |-> Fulfilled(JsNull)]
  ELSE [token |-> tk, blob |-> storage[StorageKey(tk)], live |-> TRUE,
        pc |-> IF storage[StorageKey(tk)] = NoBlob THEN "settled" ELSE "decrypt",
        result |-> IF storage[StorageKey(tk)] = NoBlob THEN Fulfilled(JsNull)
                   ELSE Pending]

\* loadFavorites without its try and catch: a failure of decrypt or of
\* JSON.parse rejects the call
LoadOutcomeUncaught(d) ==
  IF ~d.ok THEN [state |-> "rejected", val |-> JsNull]
  ELSE IF JsonParse(d.value).ok THEN Fulfilled(JsonParse(d.value).val)
  ELSE [state |-> "rejected", val |-> JsNull]

\* loadFavorites after decrypt settled with d: lines 58-65
LoadOutcome(d) ==
  IF ~d.ok THEN Fulfilled(JsNull)
  ELSE IF JsonParse(d.value).ok THEN Fulfilled(JsonParse(d.value).val)
  ELSE Fulfilled(JsNull)

\* decrypt(encryptedData), githubService.ts:58, by stored blob: worked out
\* once
Opened == [blob \in StoredBlobs |-> DecryptAlone(blob)]

OpenedOf(blob) ==
  IF blob \in StoredBlobs THEN Opened[blob] ELSE DecryptAlone(blob)

\* what a load finds, by stored blob: worked out once
LoadResult == [blob \in StoredBlobs |-> LoadOutcome(Opened[blob])]

LoadResultOf(blob) ==
  IF blob \in StoredBlobs THEN LoadResult[blob]
  ELSE LoadOutcome(DecryptAlone(blob))

\* saveFavorites(favorites, token) up to its first await: lines 15-22
NewSave(favs, tk, own) ==
  [favorites |-> favs, text |-> JsonTextOf(favs), token |-> tk,
   owner |-> own, live |-> TRUE,
   pc |-> IF tk = NoToken THEN "done" ELSE "encrypt"]

\* the calls in flight of a hook that is unmounted: their callbacks set
\* the state of no component
Orphaned(b) ==
  LET dead == {[x EXCEPT !.live = FALSE] : x \in BagToSet(b)}
  IN  [y \in dead |-> CopiesIn(y, b) + CopiesIn([y EXCEPT !.live = TRUE], b)]

Without(b, x) == b (-) SetToBag({x})

\* The render after an event, and its effects (useFavorites, lines 18-38).
\* u, tk, rf, ldg, svg: user, token, remoteFavorites, isLoading, isSaving as
\* the event left them; runLoad, runSave: a dependency of the effect changed;
\* lds, svs: the calls in flight; own: the token rf belongs to; changed:
\* the event changed remoteFavorites, user or token.
\* The render that the effects' own setState calls cause starts nothing:
\* isSaving is true then, or remoteFavorites null.
Commit(u, tk, rf, ldg, svg, runLoad, runSave, lds, svs, own, changed) ==
  LET startLoad   == runLoad /\ LoggedIn(u, tk)
      clearRemote == runLoad /\ ~LoggedIn(u, tk)
      startSave   == runSave /\ LoggedIn(u, tk) /\ rf # NoFavorites /\ ~svg
  IN  /\ user' = u
      /\ token' = tk
      /\ remoteFavorites' = IF clearRemote THEN NoFavorites ELSE rf
      /\ isLoading' = (startLoad \/ ldg)
      /\ isSaving' = (startSave \/ svg)
      /\ loads' = IF startLoad THEN lds (+) SetToBag({NewLoad(tk)}) ELSE lds
      /\ saves' = IF startSave
                  THEN svs (+) SetToBag({NewSave(rf, tk, own)})
                  ELSE svs
      /\ owner' = IF clearRemote THEN NoToken ELSE own
      /\ dirty' = IF startSave THEN FALSE ELSE (dirty \/ changed)
      /\ latest' = IF LoggedIn(u, tk) /\ ~clearRemote /\ rf # NoFavorites
                    THEN rf
                    ELSE IF tk # token THEN NoFavorites ELSE latest

\* App.tsx:84-88, handleLoginSuccess (authService.ts:15 makes the token)
Login ==
  /\ user = NoUser
  /\ clock < RestoredToken + MaxLogins
  /\ clock' = clock + 1
  /\ IF mounted
     THEN Commit(TheUser, clock + 1, remoteFavorites, isLoading, isSaving,
                 TRUE, TRUE, loads, saves, owner, TRUE)
     ELSE /\ user' = TheUser
          /\ token' = clock + 1
          /\ latest' = NoFavorites
          /\ UNCHANGED <<remoteFavorites, isLoading, isSaving, loads, saves,
                         owner, dirty>>
  /\ UNCHANGED <<mounted, localFavorites, storage, bsdStore>>
  /\ UNCHANGED <<cryptoKey, failures, serviceRest, callerVars, chessVars>>

\* App.tsx:78-82, handleLogout
Logout ==
  /\ user # NoUser
  /\ IF mounted
     THEN Commit(NoUser, NoToken, remoteFavorites, isLoading, isSaving,
                 TRUE, TRUE, loads, saves, owner, TRUE)
     ELSE /\ user' = NoUser
          /\ token' = NoToken
          /\ latest' = NoFavorites
          /\ UNCHANGED <<remoteFavorites, isLoading, isSaving, loads, saves,
                         owner, dirty>>
  /\ UNCHANGED <<clock, mounted, localFavorites, storage, bsdStore>>
  /\ UNCHANGED <<cryptoKey, failures, serviceRest, callerVars, chessVars>>

\* App.tsx:154, the character list is shown: the hook's first render and
\* the effects of it
Mount ==
  /\ ~mounted
  /\ mounted' = TRUE
  /\ Commit(user, token, NoFavorites, FALSE, FALSE, TRUE, TRUE, loads, saves,
            NoToken, FALSE)
  /\ UNCHANGED <<clock, localFavorites, storage, bsdStore>>
  /\ UNCHANGED <<cryptoKey, failures, serviceRest, callerVars, chessVars>>

\* App.tsx:154, the character list is left (a character chosen, another
\* mode): the hook's state is gone, the calls in flight go on
Unmount ==
  /\ mounted
  /\ BagCardinality(loads) + BagCardinality(saves) <= MaxOrphans
  /\ mounted' = FALSE
  /\ remoteFavorites' = NoFavorites
  /\ isLoading' = FALSE
  /\ isSaving' = FALSE
  /\ loads' = Orphaned(loads)
  /\ saves' = Orphaned(saves)
  /\ owner' = NoToken
  /\ dirty' = FALSE
  /\ UNCHANGED latest
  /\ UNCHANGED <<user, token, clock, localFavorites, storage, bsdStore>>
  /\ UNCHANGED <<cryptoKey, failures, serviceRest, callerVars, chessVars>>

\* CharacterSelector.tsx:21-23, the list with the id taken out or added
Toggled(list, id) ==
  IF \E i \in 1..Len(list) : list[i] = id
  THEN SelectSeq(list, LAMBDA x : x # id)
  ELSE Append(list, id)

\* useLocalStorage's setter: the value is kept in localStorage as JSON text
WriteLocal(list) == JsonStringify(JsStrings(list))

\* CharacterSelector.tsx:17-25, toggleFavorite (the button is disabled while
\* loading, line 52); useFavorites lines 40-41 choose the list and its setter
ToggleFavorite(id) ==
  /\ mounted
  /\ ~isLoading
  /\ IF user # NoUser
     THEN /\ Commit(user, token,
                    JsArray(Toggled(remoteFavorites.v, JsString(id))),
                    isLoading, isSaving, FALSE, TRUE, loads, saves,
                    IF remoteFavorites = NoFavorites THEN token ELSE owner, TRUE)
          /\ UNCHANGED <<localFavorites, bsdStore>>
     ELSE /\ localFavorites' = Toggled(localFavorites, id)
          /\ bsdStore' = WriteLocal(Toggled(localFavorites, id))
          /\ UNCHANGED <<user, token, remoteFavorites, isLoading, isSaving,
                         loads, saves, owner, dirty,
                 latest>>
  /\ UNCHANGED <<clock, mounted, storage>>
  /\ UNCHANGED <<cryptoKey, failures, serviceRest, callerVars, chessVars>>

\* githubService.ts:58-65, decrypt settles: the text is parsed, a failure
\* is caught and gives null
LoadSettle(load) ==
  /\ load.pc = "decrypt"
  /\ loads' = Without(loads, load) (+) SetToBag({
       [load EXCEPT !.pc = "settled",
                    !.result = LoadResultOf(load.blob)]})
  /\ cryptoKey' = TheKey
  /\ UNCHANGED <<user, token, clock, mounted, remoteFavorites, localFavorites,
                 isLoading, isSaving, saves, storage, bsdStore, owner, dirty,
                 latest>>
  /\ UNCHANGED <<failures, serviceRest, callerVars, chessVars>>

\* githubService.ts:58-65, the provider fails in decrypt: caught, null
LoadDecryptFails(load) ==
  /\ load.pc = "decrypt"
  /\ failures < MaxFailures
  /\ failures' = failures + 1
  /\ loads' = Without(loads, load) (+) SetToBag({
       [load EXCEPT !.pc = "settled", !.result = Fulfilled(JsNull)]})
  /\ UNCHANGED <<user, token, clock, mounted, remoteFavorites, localFavorites,
                 isLoading, isSaving, saves, storage, bsdStore, owner, dirty,
                 latest>>
  /\ UNCHANGED <<cryptoKey, serviceRest, callerVars, chessVars>>

\* useFavorites lines 22-24: the callbacks of the load
LoadApply(load) ==
  /\ load.pc = "settled"
  /\ IF load.live
     THEN Commit(user, token,
                 IF load.result.state = "fulfilled"
                 THEN (IF IsFalsy(load.result.val) THEN JsArray(<<>>)
                                                   ELSE load.result.val)
                 ELSE remoteFavorites,
                 FALSE, isSaving, FALSE, load.result.state = "fulfilled",
                 Without(loads, load), saves,
                 IF load.result.state = "fulfilled" THEN load.token ELSE owner,
                 load.result.state = "fulfilled")
     ELSE /\ loads' = Without(loads, load)
          /\ UNCHANGED <<user, token, remoteFavorites, isLoading, isSaving,
                         saves, owner, dirty,
                 latest>>
  /\ UNCHANGED <<clock, mounted, localFavorites, storage, bsdStore>>
  /\ UNCHANGED <<cryptoKey, failures, serviceRest, callerVars, chessVars>>

\* saveFavorites storing the JSON text itself
StoredValuePlain(blob, text) == text

\* what saveFavorites puts in storage: the blob encrypt returned
StoredValue(blob, text) == blob

\* githubService.ts:22-30, encrypt resolves, the blob is stored, the delay
\* is started
SaveEncrypted(save) ==
  /\ save.pc = "encrypt"
  /\ \E iv \in SaveNonces :
       storage' = [storage EXCEPT ![StorageKey(save.token)] =
                     StoredValue(SealedOf(iv, save.favorites),
                                 save.text)]
  /\ saves' = Without(saves, save) (+) SetToBag({[save EXCEPT !.pc = "delay"]})
  /\ cryptoKey' = TheKey
  /\ UNCHANGED <<user, token, clock, mounted, remoteFavorites, localFavorites,
                 isLoading, isSaving, loads, bsdStore, owner, dirty,
                 latest>>
  /\ UNCHANGED <<failures, serviceRest, callerVars, chessVars>>

\* the end of a saveFavorites call, useFavorites lines 35-36: its callbacks
SaveFinally(save) ==
  /\ IF save.live
     THEN Commit(user, token, remoteFavorites, isLoading, FALSE, FALSE, isSaving,
                 loads, Without(saves, save), owner, FALSE)
     ELSE /\ saves' = Without(saves, save)
          /\ UNCHANGED <<user, token, remoteFavorites, isLoading, isSaving,
                         loads, owner, dirty,
                 latest>>
  /\ UNCHANGED <<clock, mounted, localFavorites, storage, bsdStore>>

\* githubService.ts:22, encrypt rejects: saveFavorites rejects
SaveEncryptFails(save) ==
  /\ save.pc = "encrypt"
  /\ failures < MaxFailures
  /\ failures' = failures + 1
  /\ SaveFinally(save)
  /\ UNCHANGED <<cryptoKey, serviceRest, callerVars, chessVars>>

\* githubService.ts:30-32, the delay is over: saveFavorites resolves
SaveDone(save) ==
  /\ save.pc = "delay"
  /\ SaveFinally(save)
  /\ UNCHANGED <<cryptoKey, failures, serviceRest, callerVars, chessVars>>

\* the application starts logged out, or with the session getCurrentUser
\* restores (App.tsx:64-69) and what storage holds for its token
InitFavorites ==
  /\ ServiceInit
  /\ stored = NoStored
  /\ clock = RestoredToken
  /\ mounted = FALSE
  /\ remoteFavorites = NoFavorites
  /\ localFavorites = <<>>
  /\ isLoading = FALSE
  /\ isSaving = FALSE
  /\ loads = EmptyBag
  /\ saves = EmptyBag
  /\ bsdStore = NoBlob
  /\ owner = NoToken
  /\ dirty = FALSE
  /\ latest = NoFavorites
  /\ CallerIdle
  /\ ChessIdle
  /\ \/ /\ user = NoUser
        /\ token = NoToken
        /\ storage = EmptyStorage
     \/ /\ user = TheUser
        /\ token = RestoredToken
        /\ \E blob \in RestoredBlobs :
             storage = [EmptyStorage EXCEPT ![StorageKey(RestoredToken)] = blob]

NextFavorites ==
  \/ Login
  \/ Logout
  \/ Mount
  \/ Unmount
  \/ \E id \in Characters : ToggleFavorite(id)
  \/ \E load \in BagToSet(loads) : LoadSettle(load)
  \/ \E load \in BagToSet(loads) : LoadDecryptFails(load)
  \/ \E load \in BagToSet(loads) : LoadApply(load)
  \/ \E save \in BagToSet(saves) : SaveEncrypted(save)
  \/ \E save \in BagToSet(saves) : SaveEncryptFails(save)
  \/ \E save \in BagToSet(saves) : SaveDone(save)

SpecFavorites == InitFavorites /\ [][NextFavorites]_vars

\* the steps the browser takes by itself: a promise settles, a timer fires
Settling ==
  \/ \E load \in BagToSet(loads) : LoadSettle(load)
  \/ \E load \in BagToSet(loads) : LoadApply(load)
  \/ \E save \in BagToSet(saves) : SaveEncrypted(save)
  \/ \E save \in BagToSet(saves) : SaveDone(save)

SpecFavoritesFair == SpecFavorites /\ WF_vars(Settling)

-----------------------------------------------------------------------------
(* Vocabulary of the claims about the favourites.                           *)

Loads == BagToSet(loads)

Saves == BagToSet(saves)

\* blob is what encrypt returns for the JSON text of a list
SealedList(blob) ==
  /\ OpenedOf(blob).ok
  /\ JsonParse(OpenedOf(blob).value).ok
  /\ JsonParse(OpenedOf(blob).value).val.t = "array"

\* the stored values no favourites can be read from
DamagedBlobs ==
  {TruncatedBlob(RestoredBlob, 5),
   TamperedBlob(RestoredBlob, NonceLen + 1, 1),
   [RestoredBlob EXCEPT ![2] = 42],
   EncryptedBlob(DerivedMaterial, PriorNonce, <<104, 105>>)}

\* the blob under the user's token decrypts to the last favourites
Persisted ==
  (token # NoToken /\ latest # NoFavorites)
    => OpenedOf(storage[StorageKey(token)]) = Resolved(JsonStringify(latest))

\* a save of the mounted hook resolves in this step
SaveCompletes == \E save \in Saves : save.live /\ SaveDone(save)

Idle == ~isSaving /\ \A save \in Saves : ~save.live

C15_LoadNeverRejects ==
  \A load \in Loads :
    /\ load.token # NoToken
    /\ load.result.state \in {"pending", "fulfilled"}
    /\ load.pc = "settled" => load.result.state = "fulfilled"
    /\ (load.pc = "settled" /\ load.blob \in DamagedBlobs)
         => load.result = Fulfilled(JsNull)

\* a load of a damaged blob has settled, no provider failure involved
C15_Witness ==
  /\ failures = 0
  /\ \E load \in Loads :
       /\ load.pc = "settled"
       /\ load.blob \in DamagedBlobs
       /\ load.result = Fulfilled(JsNull)

\* C18: when a save of the hook completes and neither remoteFavorites nor
\* the user or token changed since it was started, no further save is
\* started and the hook is idle.
C18_IdleAfterSave ==
  [][(SaveCompletes /\ ~dirty) => Idle']_vars

\* C19: remoteFavorites is null whenever user or token is null, and every
\* save writes under the token its favourites were loaded for.
C19_NoCrossing ==
  /\ ~LoggedIn(user, token) => remoteFavorites = NoFavorites
  /\ \A save \in Saves : save.owner = save.token

\* C20: if from some point on the user, the token and the favourites do not
\* change any more (the user does nothing more, the provider fails no more),
\* then from some point on the blob under the user's token decrypts to the
\* latest favourites; and no two saves are in flight together.
C20_EventuallyPersisted ==
  /\ (<>[][UNCHANGED <<user, token, latest, mounted, failures>>]_vars)
       => <>[]Persisted
  /\ [](BagCardinality(saves) <= 1)

-----------------------------------------------------------------------------
(* githubService.ts called directly: a caller that awaits each saveFavorites *)
(* and loadFavorites call before it makes the next, with any token, the     *)
(* empty one included.                                                      *)

\* the lists handed to saveFavorites: [], ["a"], ["b","a"], and a list of
\* one id made of a byte order mark, a quote, a backslash, a line feed, a
\* lone surrogate and an e-acute
StorageLists ==
  {JsStrings(<<>>),
   JsStrings(<<<<97>>>>),
   JsStrings(<<<<98>>, <<97>>>>),
   JsStrings(<<<<65279, 34, 92, 10, 55296, 233>>>>)}

AnyToken == {NoToken} \cup Tokens

\* storage holds nothing, or the blob of an earlier run under the restored
\* token, or a blob under the prefix alone, or both
InitStorage ==
  /\ ServiceInit
  /\ stored = NoStored
  /\ user = NoUser
  /\ token = NoToken
  /\ clock = RestoredToken
  /\ mounted = FALSE
  /\ remoteFavorites = NoFavorites
  /\ localFavorites = <<>>
  /\ isLoading = FALSE
  /\ isSaving = FALSE
  /\ loads = EmptyBag
  /\ saves = EmptyBag
  /\ bsdStore = NoBlob
  /\ owner = NoToken
  /\ dirty = FALSE
  /\ latest = NoFavorites
  /\ ChessIdle
  /\ \E restored \in BOOLEAN, foreign \in BOOLEAN :
       /\ storage =
            [key \in StorageKeys |->
               IF (key = StorageKey(RestoredToken) /\ restored)
                    \/ (key = <<GITHUB_STORAGE_KEY_PREFIX, NoToken>> /\ foreign)
               THEN RestoredBlob ELSE NoBlob]
       /\ saved = [tk \in AnyToken |->
                     IF tk = RestoredToken /\ restored THEN RestoredFavorites
                     ELSE NoFavorites]

NoCallInFlight == loads = EmptyBag /\ saves = EmptyBag

\* saveFavorites(favorites, token) is called: lines 14-22
CallSaveFavorites(favs, tk) ==
  /\ NoCallInFlight
  /\ saves' = SetToBag({[NewSave(favs, tk, NoToken) EXCEPT !.live = FALSE]})
  /\ UNCHANGED <<user, token, clock, mounted, remoteFavorites, localFavorites,
                 isLoading, isSaving, loads, storage, bsdStore, owner, dirty,
                 latest>>
  /\ UNCHANGED <<cryptoKey, failures, serviceRest, callerVars, chessVars>>

\* loadFavorites(token) is called: lines 40-58
CallLoadFavorites(tk) ==
  /\ NoCallInFlight
  /\ loads' = SetToBag({[NewLoad(tk) EXCEPT !.live = FALSE]})
  /\ UNCHANGED <<user, token, clock, mounted, remoteFavorites, localFavorites,
                 isLoading, isSaving, saves, storage, bsdStore, owner, dirty,
                 latest>>
  /\ UNCHANGED <<cryptoKey, failures, serviceRest, callerVars, chessVars>>

\* the caller's await of saveFavorites ends: the call returned at line 17,
\* or its delay is over, lines 30-33
SaveReturns(save) ==
  /\ ~save.live
  /\ save.pc \in {"done", "delay"}
  /\ saves' = Without(saves, save)
  /\ saved' = IF save.pc = "delay"
              THEN [saved EXCEPT ![save.token] = save.favorites]
              ELSE saved
  /\ UNCHANGED <<user, token, clock, mounted, remoteFavorites, localFavorites,
                 isLoading, isSaving, loads, storage, bsdStore, owner, dirty,
                 latest>>
  /\ UNCHANGED <<cryptoKey, failures, serviceRest, chessVars>>

NextStorage ==
  \/ \E favs \in StorageLists, tk \in AnyToken : CallSaveFavorites(favs, tk)
  \/ \E tk \in AnyToken : CallLoadFavorites(tk)
  \/ \E load \in BagToSet(loads) : LoadSettle(load)
  \/ \E load \in BagToSet(loads) : LoadDecryptFails(load)
  \/ \E load \in BagToSet(loads) : LoadApply(load)
  \/ \E save \in BagToSet(saves) : SaveEncrypted(save)
  \/ \E save \in BagToSet(saves) : SaveEncryptFails(save)
  \/ \E save \in BagToSet(saves) : SaveReturns(save)

SpecStorage == InitStorage /\ [][NextStorage]_vars

\* a call with the empty token is made, is in flight or returns in this step
EmptyTokenStep ==
  \/ \E load \in BagToSet(loads) \cup BagToSet(loads') : load.token = NoToken
  \/ \E save \in BagToSet(saves) \cup BagToSet(saves') : save.token = NoToken

C22_EmptyTokenGuard ==
  /\ [](/\ \A save \in Saves : save.token = NoToken => save.pc = "done"
        /\ \A load \in Loads :
             load.token = NoToken
               => /\ load.pc = "settled"
                  /\ load.blob = NoBlob
                  /\ load.result = Fulfilled(JsNull))
  /\ [][EmptyTokenStep
          => /\ storage' = storage
             /\ cryptoKey' = cryptoKey
             /\ failures' = failures
             /\ saved' = saved]_vars

\* loadFavorites("") returned null with a blob stored under the prefix alone
\* and no key derived
C22_Witness ==
  /\ storage[<<GITHUB_STORAGE_KEY_PREFIX, NoToken>>] = RestoredBlob
  /\ cryptoKey = NoKey
  /\ \E load \in Loads :
       load.token = NoToken /\ load.result = Fulfilled(JsNull)

-----------------------------------------------------------------------------
(* ChessMode.tsx.  A step is one event (a click, the timeout, a reply of    *)
(* the model) with the render it causes and the effect of that render.  The *)
(* moves of Moves are legal in every position that is not over; while the   *)
(* new game dialog is shown it covers the board and the controls.           *)

\* new games of one run
MaxGames == 2

\* getAiMove calls in flight together
MaxRequests == 2

\* line 58: for (let i = 0; i < 3; i++)
MaxTries == 3

\* the loop that asks one time more
MaxTriesPlusOne == MaxTries + 1

Moves == {"Nf3", "Nc3"}

Colors == {"w", "b"}

\* the values the slider is moved between
Elos == {InitialElo, InitialElo + EloStep}

\* the effect of lines 94-100 after a render in which game, playerColor,
\* showNewGameDialog or getAiMove (elo, game) changed: the timeout of the
\* render before is cleared, a new one is set when it is the AI's turn
AiTurnEffect(g, color, dialog, e) ==
  IF ~dialog /\ Turn(g) # color /\ ~IsGameOver(g)
  THEN [set |-> TRUE, game |-> g, elo |-> e]
  ELSE NoTimer

\* lines 120-128, startNewGame
StartNewGame(color) ==
  /\ showNewGameDialog
  /\ gameNo < MaxGames
  /\ gameNo' = gameNo + 1
  /\ game' = NewChess(gameNo + 1)
  /\ fen' = Fen(NewChess(gameNo + 1))
  /\ history' = <<>>
  /\ playerColor' = color
  /\ status' = StatusOf(NewChess(gameNo + 1))
  /\ showNewGameDialog' = FALSE
  /\ timer' = AiTurnEffect(NewChess(gameNo + 1), color, FALSE, elo)
  /\ UNCHANGED <<elo, isAiThinking, requests>>
  /\ UNCHANGED <<serviceVars, hookVars, callerVars>>

\* line 194, the New Game button
OpenNewGameDialog ==
  /\ ~showNewGameDialog
  /\ gameNo < MaxGames
  /\ showNewGameDialog' = TRUE
  /\ timer' = AiTurnEffect(game, playerColor, TRUE, elo)
  /\ UNCHANGED <<game, fen, elo, history, playerColor, isAiThinking, status,
                 requests, gameNo>>
  /\ UNCHANGED <<serviceVars, hookVars, callerVars>>

\* line 170, the slider
SetElo(e) ==
  /\ ~showNewGameDialog
  /\ e # elo
  /\ elo' = e
  /\ timer' = AiTurnEffect(game, playerColor, showNewGameDialog, e)
  /\ UNCHANGED <<game, fen, history, playerColor, isAiThinking, status,
                 showNewGameDialog, requests, gameNo>>
  /\ UNCHANGED <<serviceVars, hookVars, callerVars>>

\* what lines 78-81 and 110-113 set, and the effect that follows
SetGame(g) ==
  /\ game' = g
  /\ fen' = Fen(g)
  /\ history' = HistoryOf(g)
  /\ status' = StatusOf(g)
  /\ timer' = AiTurnEffect(g, playerColor, showNewGameDialog, elo)

\* lines 103-118, handleMove, for a move the board lets through
HandleMove(m) ==
  /\ ~showNewGameDialog
  /\ Turn(game) = playerColor
  /\ ~isAiThinking
  /\ ~IsGameOver(game)
  /\ SetGame(Moved(CopyOf(game), m))
  /\ UNCHANGED <<elo, playerColor, isAiThinking, showNewGameDialog, requests,
                 gameNo>>
  /\ UNCHANGED <<serviceVars, hookVars, callerVars>>

\* lines 97 and 39-59: the timeout calls the getAiMove of its render, which
\* copies that render's game and sends the first request
TimerFires ==
  /\ timer.set
  /\ BagCardinality(requests) < MaxRequests
  /\ isAiThinking' = TRUE
  /\ requests' = requests (+) SetToBag({[copy |-> CopyOf(timer.game),
                                         elo |-> timer.elo, i |-> 0]})
  /\ timer' = NoTimer
  /\ UNCHANGED <<game, fen, elo, history, playerColor, status,
                 showNewGameDialog, gameNo>>
  /\ UNCHANGED <<serviceVars, hookVars, callerVars>>

\* lines 64-81 and 90: the reply is a legal move
ReplyLegal(req, m) ==
  /\ SetGame(Moved(req.copy, m))
  /\ isAiThinking' = FALSE
  /\ requests' = Without(requests, req)
  /\ UNCHANGED <<elo, playerColor, showNewGameDialog, gameNo>>
  /\ UNCHANGED <<serviceVars, hookVars, callerVars>>

\* the loop of line 58 asking up to tries times
ReplyIllegalUpTo(req, tries) ==
  /\ IF req.i + 1 < tries
     THEN /\ requests' = Without(requests, req)
                           (+) SetToBag({[req EXCEPT !.i = req.i + 1]})
          /\ UNCHANGED <<isAiThinking, status>>
     ELSE /\ requests' = Without(requests, req)
          /\ isAiThinking' = FALSE
          /\ status' = AiFailedStatus
  /\ UNCHANGED <<game, fen, elo, history, playerColor, showNewGameDialog,
                 timer, gameNo>>
  /\ UNCHANGED <<serviceVars, hookVars, callerVars>>

\* the loop asking a fourth time
ReplyIllegalFourTries(req) == ReplyIllegalUpTo(req, MaxTriesPlusOne)

\* lines 58-75, 82-84 and 90: the reply is no legal move
ReplyIllegal(req) == ReplyIllegalUpTo(req, MaxTries)

\* lines 59, 86-90: the request throws
ReplyThrows(req) ==
  /\ requests' = Without(requests, req)
  /\ isAiThinking' = FALSE
  /\ status' = AiErrorStatus
  /\ UNCHANGED <<game, fen, elo, history, playerColor, showNewGameDialog,
                 timer, gameNo>>
  /\ UNCHANGED <<serviceVars, hookVars, callerVars>>

InitChess ==
  /\ ServiceInit
  /\ stored = NoStored
  /\ HookIdle
  /\ CallerIdle
  /\ ChessIdle

NextChess ==
  \/ \E color \in Colors : StartNewGame(color)
  \/ OpenNewGameDialog
  \/ \E e \in Elos : SetElo(e)
  \/ \E m \in Moves : HandleMove(m)
  \/ TimerFires
  \/ \E req \in BagToSet(requests), m \in Moves : ReplyLegal(req, m)
  \/ \E req \in BagToSet(requests) : ReplyIllegal(req)
  \/ \E req \in BagToSet(requests) : ReplyThrows(req)

SpecChess == InitChess /\ [][NextChess]_vars

\* a step in which the getAiMove call of req goes on or ends
Answered(req) == CopiesIn(req, requests') < CopiesIn(req, requests)

\* the call asks again: the reply was no legal move and fewer than MaxTries
\* requests were made
AsksAgain(req) ==
  /\ req.i + 1 < MaxTries
  /\ requests' = Without(requests, req)
                   (+) SetToBag({[req EXCEPT !.i = req.i + 1]})
  /\ UNCHANGED <<game, fen, history, isAiThinking>>

\* the call ends with the legal move of its reply made on its copy
EndsWithMove(req) ==
  /\ requests' = Without(requests, req)
  /\ \E m \in Moves : game' = Moved(req.copy, m)
  /\ fen' = Fen(game')
  /\ history' = HistoryOf(game')
  /\ isAiThinking' = FALSE

\* the call ends without a move: the last of MaxTries replies was no legal
\* move, or the request threw
EndsWithoutMove(req) ==
  /\ requests' = Without(requests, req)
  /\ UNCHANGED <<game, fen, history>>
  /\ isAiThinking' = FALSE
  /\ \/ status' = AiFailedStatus /\ req.i = MaxTries - 1
     \/ status' = AiErrorStatus

\* C26: one getAiMove call makes at most 3 requests; a reply that is a legal
\* move ends the call and game, fen and history become that move made on
\* the call's copy of the position; a reply that is no legal move is followed
\* by the next request while fewer than 3 were made; after the third such
\* reply, or when the request throws, game, fen and history are unchanged;
\* isAiThinking is false when the call ends, however it ends.
C26_AiMoveRetry ==
  /\ [](\A req \in BagToSet(requests) : req.i < MaxTries)
  /\ [][\A req \in BagToSet(requests) :
          Answered(req) =>
            AsksAgain(req) \/ EndsWithMove(req) \/ EndsWithoutMove(req)]_vars

\* three replies that were no legal move: the AI, playing white in the first
\* game, has not moved
C26_Witness ==
  /\ status = AiFailedStatus
  /\ ~isAiThinking
  /\ requests = EmptyBag
  /\ gameNo = 1
  /\ playerColor = "b"
  /\ game = NewChess(1)
  /\ fen = <<>>
  /\ history = <<>>

\* handleMove takes a move of the player: line 104 and the board, which
\* offers the moves of the side to move for the pieces of playerColor
PlayerMoveAccepted ==
  /\ ~showNewGameDialog
  /\ Turn(game) = playerColor
  /\ ~isAiThinking
  /\ ~IsGameOver(game)

\* an AI move attempt is on its way: the timeout is set or a call is in flight
AiAttemptUnderWay == timer.set \/ requests # EmptyBag

\* C23: while the status is the one of a failed AI move and the game goes on
\* (not over, no new game dialog), the game is not stuck on the AI's turn: a
\* move of the player is accepted or an AI move attempt is under way.
C23_NotStuck ==
  (status = AiFailedStatus /\ ~showNewGameDialog /\ ~IsGameOver(game))
    => (PlayerMoveAccepted \/ AiAttemptUnderWay)

\* a step that updates the game state within one game
UpdatesGame ==
  /\ gameNo' = gameNo
  /\ game'.no = game.no
  /\ game' # game \/ fen' # fen \/ history' # history

\* the position after the step is the one before it with one legal move made
PositionExtends == \E m \in Moves : Fen(game') = Append(Fen(game), m)

\* the move list after the step is the one before it with one move more
HistoryExtends == \E m \in Moves : history' = Append(history, m)

C24_PositionKept == [][UpdatesGame => PositionExtends]_vars

C24_HistoryKept == [][UpdatesGame => HistoryExtends]_vars

\* C24: no applied move is lost: every step that updates the game state
\* within one game makes one legal move on the position before it and adds
\* that move to the move list before it; in particular a late reply never
\* replaces a position that holds later moves.
C24_NoMoveLost ==
  [][UpdatesGame => (PositionExtends /\ HistoryExtends)]_vars

\* the call of req was started in a game before the one being played
OfPreviousGame(req) == req.copy.no # gameNo

\* C25: a new game is not disturbed by the game before it: the position on
\* the board is one of the game being played (the start position until a
\* move is made in it), and a step that answers a call started in a game
\* before changes neither game, fen, history nor status.
C25_NewGameUndisturbed ==
  /\ [](game.no = gameNo)
  /\ [][\A req \in BagToSet(requests) :
          (Answered(req) /\ OfPreviousGame(req))
            => UNCHANGED <<game, fen, history, status>>]_vars

=============================================================================
